---------------------------- MODULE Spec2Model ----------------------------
(***************************************************************************)
(* A model of the CodeBuddy sketch-to-markup core:                         *)
(*   - classify_shape and filter_duplicates   (image_processing/detector)  *)
(*   - build_layout_tree                      (codegen/layout_engine)      *)
(*   - generate_html / generate_component_html / escape_html               *)
(*                                            (codegen/html_gen)           *)
(*   - generate_html_with_styles / escape_html (codegen/html_gen_styled)   *)
(*   - the text-fill step of upload_image     (app)                        *)
(*                                                                         *)
(* Numbers.  The code mixes Python ints and floats.  Every float that      *)
(* decides a branch is a quotient or a product of small integers with one  *)
(* of the constants 0.4 0.6 0.75 0.8 0.85 1.2 1.5 2.5 4, so each           *)
(* comparison is modelled exactly by cross-multiplying the integers        *)
(* (a/b > 3/4 is 4*a > 3*b for b > 0).  For pixel-sized operands the       *)
(* correctly rounded double comparison agrees with the exact one.          *)
(*                                                                         *)
(* Strings.  A text is a sequence of one-character strings.  Markup is a   *)
(* sequence of chunks [k, v]: k = "lit" for a piece of a template (v holds *)
(* the literal), k = "txt" for inserted text (v is its character sequence).*)
(***************************************************************************)
EXTENDS Integers, Sequences, FiniteSets, TLC

VARIABLES
    \* classify_shape
    w, h, comp_type, cpc,
    \* filter_duplicates
    components, sorted_comps, keep, di, dlog, dresult, refiltered, dpc,
    \* build_layout_tree and the emission of its tree
    lcomps, layout_sorted, current_row, rows, li, ri, root,
    used_component_ids, llog, html, css, lpc,
    \* the emission of one component, and the text-fill step
    ecomp, ocr, emode, eout, epc,
    \* convert_design
    shapes, design_components, response, xpc

cvars == <<w, h, comp_type, cpc>>
dvars == <<components, sorted_comps, keep, di, dlog, dresult, refiltered,
           dpc>>
lvars == <<lcomps, layout_sorted, current_row, rows, li, ri, root,
           used_component_ids, llog, html, css, lpc>>
evars == <<ecomp, ocr, emode, eout, epc>>
xvars == <<shapes, design_components, response, xpc>>
vars == <<cvars, dvars, lvars, evars, xvars>>

\* ------------------------------------------------------------------ bounds
MaxDim == 300
MaxComps == 3
MaxTextLen == 2

\* ------------------------------------------------------------- components
\* Component.__init__: id, type, bbox = (x, y, w, h), text
Component(id, type, bbox, text) ==
    [kind |-> "obj", id |-> id, type |-> type, bbox |-> bbox, text |-> text]

\* app.convert_design, lines 110-128: a component built from a canvas shape
\* is a dict.
DictComponent(id, type, bbox, text, styles) ==
    [kind |-> "dict", id |-> id, type |-> type, bbox |-> bbox, text |-> text,
     styles |-> styles]

\* LayoutNode.component of a node that wraps no component (None).
NoComponent == [kind |-> "none"]

Max(a, b) == IF a >= b THEN a ELSE b
Min(a, b) == IF a <= b THEN a ELSE b
Abs(a) == IF a >= 0 THEN a ELSE -a

\* c.bbox[2] * c.bbox[3]
Area(c) == c.bbox[3] * c.bbox[4]

\* ---------------------------------------------------------- classify_shape
\* ar is the float w / h, kept as the pair <<w, h>>; ar > p/q and ar < p/q
\* for h > 0.
ArGt(ar, p, q) == ar[1] * q > p * ar[2]
ArLt(ar, p, q) == ar[1] * q < p * ar[2]

\* Line 171: small and roughly square.
CheckboxRule(area, ar) ==
    200 < area /\ area < 2000 /\ ArGt(ar, 4, 5) /\ ArLt(ar, 6, 5)

\* Line 175: wide, of moderate height.
InputRule(ch, ar) == ArGt(ar, 5, 2) /\ ch < 60

\* A button rule whose aspect-ratio range starts at 1.0.
ButtonRule_wide(ch, area, ar) ==
    ArGt(ar, 1, 1) /\ ArLt(ar, 4, 1) /\ ch > 30 /\ area < 20000

\* Line 179: moderate aspect ratio and size.
ButtonRule(ch, area, ar) ==
    ArGt(ar, 3, 2) /\ ArLt(ar, 4, 1) /\ ch > 30 /\ area < 20000

\* A classifier whose button rule is tested before the input rule.
classify_shape_button_first(cw, ch, area, ar) ==
    IF 200 < area /\ area < 2000 /\ ArGt(ar, 4, 5) /\ ArLt(ar, 6, 5)
    THEN "checkbox"
    ELSE IF ArGt(ar, 3, 2) /\ ArLt(ar, 4, 1) /\ ch > 30 /\ area < 20000
    THEN "button"
    ELSE IF ArGt(ar, 5, 2) /\ ch < 60
    THEN "input"
    ELSE IF area > 40000
    THEN "container"
    ELSE "box"

\* classify_shape(w, h, area, ar, processed_data, x, y); the last three
\* parameters are never read.
classify_shape(cw, ch, area, ar) ==
    IF CheckboxRule(area, ar)
    THEN "checkbox"
    ELSE IF InputRule(ch, ar)
    THEN "input"
    ELSE IF ButtonRule(ch, area, ar)
    THEN "button"
    ELSE IF area > 40000
    THEN "container"
    ELSE "box"

\* ------------------------------------------------------- filter_duplicates
\* The descending order obtained by reversing an ascending stable sort:
\* equal areas come out in reverse detection order.
RECURSIVE InsertDescUnstable(_, _)
InsertDescUnstable(s, c) ==
    IF s = <<>> THEN <<c>>
    ELSE IF Area(Head(s)) > Area(c)
    THEN <<Head(s)>> \o InsertDescUnstable(Tail(s), c)
    ELSE <<c>> \o s

\* sorted(components, key=area, reverse=True): Python's sort is stable, and
\* with reverse=True equal keys still keep their original order.  c goes
\* behind every element whose area is at least its own.
RECURSIVE InsertDesc(_, _)
InsertDesc(s, c) ==
    IF s = <<>> THEN <<c>>
    ELSE IF Area(Head(s)) >= Area(c) THEN <<Head(s)>> \o InsertDesc(Tail(s), c)
    ELSE <<c>> \o s

RECURSIVE SortByAreaDescFrom(_, _, _)
SortByAreaDescFrom(s, j, acc) ==
    IF j > Len(s) THEN acc
    ELSE SortByAreaDescFrom(s, j + 1, InsertDesc(acc, s[j]))

SortByAreaDesc(s) == SortByAreaDescFrom(s, 1, <<>>)

\* Lines 118-126: the intersection rectangle of current and kept.
Intersection(current, kept) ==
    LET cx == current.bbox[1]
        cy == current.bbox[2]
        cw == current.bbox[3]
        ch == current.bbox[4]
        kx == kept.bbox[1]
        ky == kept.bbox[2]
        kw == kept.bbox[3]
        kh == kept.bbox[4]
        x_left == Max(cx, kx)
        y_top == Max(cy, ky)
        x_right == Min(cx + cw, kx + kw)
        y_bottom == Min(cy + ch, ky + kh)
    IN  IF x_right < x_left \/ y_bottom < y_top
        THEN 0
        ELSE (x_right - x_left) * (y_bottom - y_top)

\* An overlap test that also fires at an IoU of exactly 0.75.
HighIoU_inclusive(intersection, union) ==
    union > 0 /\ 4 * intersection >= 3 * union

\* An overlap test with the threshold at 0.95.
HighIoU_95(intersection, union) ==
    union > 0 /\ 20 * intersection > 19 * union

\* Lines 129-133: iou = intersection / union if union > 0 else 0; iou > 0.75
HighIoU(intersection, union) ==
    union > 0 /\ 4 * intersection > 3 * union

\* Lines 140-156: the containment test; the result names the branch taken.
\* size_ratio = c_area / k_area if k_area > 0 else 0.
Containment(current, kept, intersection) ==
    LET c_area == Area(current)
        k_area == Area(kept)
    IN  IF 5 * intersection >= 4 * c_area
        THEN IF current.type = kept.type
             THEN IF k_area > 0 /\ 5 * c_area > 2 * k_area
                  THEN "same type" ELSE "no"
             ELSE IF k_area > 0 /\ 20 * c_area > 17 * k_area
                  THEN "similar size" ELSE "no"
        ELSE "no"

\* A scan that compares the current component with the first kept one only.
ScanKeep_first_only(current, kp, j) ==
    IF j > Len(kp) \/ j > 1 THEN [dup |-> FALSE, by |-> 0, method |-> "none"]
    ELSE LET kept == kp[j]
             intersection == Intersection(current, kept)
             union == Area(current) + Area(kept) - intersection
         IN  IF HighIoU(intersection, union)
             THEN [dup |-> TRUE, by |-> kept.id, method |-> "IoU"]
             ELSE IF Containment(current, kept, intersection) # "no"
             THEN [dup |-> TRUE, by |-> kept.id,
                   method |-> Containment(current, kept, intersection)]
             ELSE [dup |-> FALSE, by |-> 0, method |-> "none"]

\* Lines 113-156: the scan of the keep list from position j, ended by the
\* first kept component that makes current a duplicate (break).
RECURSIVE ScanKeep(_, _, _)
ScanKeep(current, kp, j) ==
    IF j > Len(kp) THEN [dup |-> FALSE, by |-> 0, method |-> "none"]
    ELSE LET kept == kp[j]
             intersection == Intersection(current, kept)
             union == Area(current) + Area(kept) - intersection
         IN  IF HighIoU(intersection, union)
             THEN [dup |-> TRUE, by |-> kept.id, method |-> "IoU"]
             ELSE IF Containment(current, kept, intersection) # "no"
             THEN [dup |-> TRUE, by |-> kept.id,
                   method |-> Containment(current, kept, intersection)]
             ELSE ScanKeep(current, kp, j + 1)

\* Lines 106-161 as a function: the kept list after the outer loop has
\* processed sorted_list from position j on.
RECURSIVE FilterFrom(_, _, _)
FilterFrom(sorted_list, j, kp) ==
    IF j > Len(sorted_list) THEN kp
    ELSE LET current == sorted_list[j]
         IN  IF ScanKeep(current, kp, 1).dup
             THEN FilterFrom(sorted_list, j + 1, kp)
             ELSE FilterFrom(sorted_list, j + 1, Append(kp, current))

\* filter_duplicates(components), lines 90-164, as a function of its input.
filter_duplicates(comps) ==
    IF Len(comps) = 0 THEN <<>>
    ELSE FilterFrom(SortByAreaDesc(comps), 1, <<>>)

\* ------------------------------------------------------------------ markup
Lit(str) == [k |-> "lit", v |-> <<str>>]
Val(str) == [k |-> "val", v |-> <<str>>]
Txt(chars) == [k |-> "txt", v |-> chars]

\* The value of a call that ended in an exception.
Raised(exc) == <<[k |-> "raise", v |-> <<exc>>]>>

IsRaised(m) == Len(m) = 1 /\ m[1].k = "raise"

\* "  " * indent_level
RECURSIVE Indent(_)
Indent(n) == IF n <= 0 THEN <<>> ELSE <<Lit("  ")>> \o Indent(n - 1)

\* str.replace(ch, entity) on a sequence of characters
RECURSIVE Replace(_, _, _)
Replace(text, ch, entity) ==
    IF text = <<>> THEN <<>>
    ELSE (IF Head(text) = ch THEN entity ELSE <<Head(text)>>)
            \o Replace(Tail(text), ch, entity)

AmpEntity == <<"&", "a", "m", "p", ";">>
LtEntity == <<"&", "l", "t", ";">>
GtEntity == <<"&", "g", "t", ";">>
QuotEntity == <<"&", "q", "u", "o", "t", ";">>
AposEntity == <<"&", "#", "3", "9", ";">>

\* An escape that replaces & after the other four characters.
escape_html_amp_last(text) ==
    IF text = <<>> THEN <<>>
    ELSE Replace(Replace(Replace(Replace(Replace(text,
            "<", LtEntity), ">", GtEntity), "\"", QuotEntity),
            "'", AposEntity), "&", AmpEntity)

\* html_gen.escape_html
escape_html(text) ==
    IF text = <<>> THEN <<>>
    ELSE Replace(Replace(Replace(Replace(Replace(text,
            "&", AmpEntity), "<", LtEntity), ">", GtEntity),
            "\"", QuotEntity), "'", AposEntity)

\* html_gen_styled.escape_html
escape_html_styled(text) ==
    Replace(Replace(Replace(Replace(Replace(text,
        "&", AmpEntity), "<", LtEntity), ">", GtEntity),
        "\"", QuotEntity), "'", AposEntity)

Chars_Button == <<"B", "u", "t", "t", "o", "n">>
Chars_EnterText == <<"E", "n", "t", "e", "r", " ", "t", "e", "x", "t">>
Chars_EnterTextDots == Chars_EnterText \o <<".", ".", ".">>
Chars_Label == <<"L", "a", "b", "e", "l">>
Chars_Option == <<"O", "p", "t", "i", "o", "n">>

\* html_gen.generate_component_html(component, indent_level).  A dict has
\* no attribute .type: AttributeError.
generate_component_html(component, indent_level) ==
    IF component.kind # "obj" THEN Raised("AttributeError")
    ELSE
    LET indent == Indent(indent_level)
        c_type == component.type
        c_id == ToString(component.id)
        text == component.text
        comment == indent \o <<Lit("<!-- "), Val(c_id), Lit(": "),
                               Val(c_type), Lit(" -->\n")>>
    IN  IF c_type = "button"
        THEN comment \o indent
               \o <<Lit("<button class=\"btn\">"),
                    Txt(IF text # <<>> THEN escape_html(text)
                        ELSE Chars_Button),
                    Lit("</button>\n")>>
        ELSE IF c_type = "input"
        THEN comment \o indent
               \o <<Lit("<input type=\"text\" class=\"input-field\" placeholder=\""),
                    Txt(IF text # <<>> THEN escape_html(text)
                        ELSE Chars_EnterTextDots),
                    Lit("\" />\n")>>
        ELSE IF c_type = "label"
        THEN comment \o indent
               \o <<Lit("<label class=\"text-label\">"),
                    Txt(IF text # <<>> THEN escape_html(text)
                        ELSE Chars_Label),
                    Lit("</label>\n")>>
        ELSE IF c_type = "checkbox"
        THEN comment \o indent
               \o <<Lit("<div class=\"checkbox-wrapper\">\n")>> \o indent
               \o <<Lit("  <input type=\"checkbox\" id=\""), Val(c_id),
                    Lit("\" />\n")>> \o indent
               \o <<Lit("  <label for=\""), Val(c_id), Lit("\">"),
                    Txt(IF text # <<>> THEN escape_html(text)
                        ELSE Chars_Option),
                    Lit("</label>\n")>> \o indent
               \o <<Lit("</div>\n")>>
        ELSE IF c_type = "container"
        THEN comment \o indent \o <<Lit("<div class=\"card\">\n")>> \o indent
               \o <<Lit("  <!-- Container content -->\n")>> \o indent
               \o <<Lit("</div>\n")>>
        ELSE comment \o indent
               \o <<Lit("<div class=\"unknown-box\" data-type=\""),
                    Val(c_type),
                    Lit("\"><!-- Unknown component type --></div>\n")>>

\* inner += generate_html(child, ...): the concatenation of the parts; an
\* exception in one part ends the call.
RECURSIVE Concat(_)
Concat(parts) ==
    IF parts = <<>> THEN <<>>
    ELSE IF IsRaised(Head(parts)) THEN Head(parts)
    ELSE LET rest == Concat(Tail(parts))
         IN  IF IsRaised(rest) THEN rest ELSE Head(parts) \o rest

\* "\n".join(html_parts)
RECURSIVE Join(_)
Join(parts) ==
    IF parts = <<>> THEN <<>>
    ELSE IF IsRaised(Head(parts)) THEN Head(parts)
    ELSE IF Len(parts) = 1 THEN Head(parts)
    ELSE LET rest == Join(Tail(parts))
         IN  IF IsRaised(rest) THEN rest
             ELSE Head(parts) \o <<Lit("\n")>> \o rest

\* A root that is wrapped in an element of its own.
RootHtml_wrapped(inner) ==
    IF IsRaised(inner) THEN inner
    ELSE <<Lit("<div id=\"root\">\n")>> \o inner \o <<Lit("</div>\n")>>

\* html_gen.generate_html, lines 11-16: the root returns inner_html.
RootHtml(inner) == inner

\* html_gen.generate_html(layout_node, indent_level).  The tree is at most
\* root / row / leaf deep.
generate_html(layout_node, indent_level) ==
    LET LeafHtml(node, lvl) ==
            IF node.node_type = "leaf"
            THEN generate_component_html(node.component, lvl)
            ELSE <<>>
        RowHtml(node, lvl) ==
            IF node.node_type = "row"
            THEN LET inner == Concat([j \in 1..Len(node.children) |->
                                LeafHtml(node.children[j], lvl + 1)])
                 IN  IF IsRaised(inner) THEN inner
                     ELSE Indent(lvl)
                            \o <<Lit("<div class=\"row-container\">\n")>>
                            \o inner \o Indent(lvl) \o <<Lit("</div>\n")>>
            ELSE LeafHtml(node, lvl)
    IN  IF layout_node.node_type = "root"
        THEN RootHtml(Concat([j \in 1..Len(layout_node.children) |->
                        RowHtml(layout_node.children[j], indent_level)]))
        ELSE RowHtml(layout_node, indent_level)

\* css_gen.generate_css: a fixed stylesheet, given by its rules.
generate_css ==
    <<Lit("body"), Lit(".row-container"), Lit(".btn"), Lit(".btn:hover"),
      Lit(".btn:active"), Lit(".input-field"), Lit(".input-field:focus"),
      Lit(".text-label"), Lit(".checkbox-wrapper"),
      Lit(".checkbox-wrapper input[type=\"checkbox\"]"),
      Lit(".checkbox-wrapper label"), Lit(".card"), Lit(".unknown-box")>>

\* html_gen_styled.generate_css_with_styles(components): a fixed stylesheet.
generate_css_with_styles(comps) ==
    <<Lit("#generated-content"), Lit(".row-container"), Lit(".btn"),
      Lit(".btn:hover"), Lit(".input-field"), Lit(".input-field:focus"),
      Lit(".text-label")>>

\* Lines 39-52: the inline style attribute of a dict component.  A colour
\* is a string ("" when absent), a size a number (0 is falsy).
StyleAttr(styles) ==
    LET parts ==
          (IF styles.fillColor # "" /\ styles.fillColor # "transparent"
           THEN << <<Lit("background-color: "), Val(styles.fillColor)>> >>
           ELSE <<>>)
          \o (IF styles.borderColor # ""
              THEN << <<Lit("border: "), Val(ToString(styles.borderWidth)),
                        Lit("px solid "), Val(styles.borderColor)>> >>
              ELSE <<>>)
          \o (IF styles.borderRadius # 0
              THEN << <<Lit("border-radius: "),
                        Val(ToString(styles.borderRadius)), Lit("px")>> >>
              ELSE <<>>)
          \o (IF styles.fontSize # 0
              THEN << <<Lit("font-size: "), Val(ToString(styles.fontSize)),
                        Lit("px")>> >>
              ELSE <<>>)
          \o (IF styles.fontColor # ""
              THEN << <<Lit("color: "), Val(styles.fontColor)>> >>
              ELSE <<>>)
        RECURSIVE JoinSemi(_)
        JoinSemi(ps) ==
            IF ps = <<>> THEN <<>>
            ELSE IF Len(ps) = 1 THEN Head(ps)
            ELSE Head(ps) \o <<Lit("; ")>> \o JoinSemi(Tail(ps))
    IN  IF parts # <<>>
        THEN <<Lit(" style=\"")>> \o JoinSemi(parts) \o <<Lit("\"")>>
        ELSE <<>>

\* html_gen_styled.generate_html_with_styles, lines 32-74: a leaf.  A
\* Component object has no method .get: AttributeError.
StyledLeaf(comp, indent) ==
    IF comp.kind # "dict" THEN Raised("AttributeError")
    ELSE
    LET indent_str == Indent(indent)
        comp_id == ToString(comp.id)
        the_type == comp.type
        text == comp.text
        style_attr == StyleAttr(comp.styles)
        comment == indent_str \o <<Lit("<!-- "), Val(comp_id), Lit(": "),
                                   Val(the_type), Lit(" -->")>>
        width == comp.bbox[3]
        height == comp.bbox[4]
    IN  IF the_type = "rect"
        THEN IF height > 0 /\ 2 * width > 5 * height
             THEN Join(<< comment,
                    indent_str
                    \o <<Lit("<input type=\"text\" class=\"input-field\" placeholder=\""),
                         Txt(IF text # <<>> THEN escape_html_styled(text)
                             ELSE Chars_EnterText),
                         Lit("\"")>> \o style_attr \o <<Lit(" />")>> >>)
             ELSE Join(<< comment,
                    indent_str \o <<Lit("<button class=\"btn\"")>>
                    \o style_attr
                    \o <<Lit(">"),
                         Txt(IF text # <<>> THEN escape_html_styled(text)
                             ELSE Chars_Button),
                         Lit("</button>")>> >>)
        ELSE IF the_type = "text"
        THEN Join(<< comment,
                indent_str \o <<Lit("<p class=\"text-label\"")>>
                \o style_attr
                \o <<Lit(">"),
                     Txt(IF text # <<>> THEN escape_html_styled(text)
                         ELSE Chars_Label),
                     Lit("</p>")>> >>)
        ELSE Join(<< comment >>)

\* html_gen_styled.generate_html_with_styles(layout_node, indent)
generate_html_with_styles(layout_node, indent) ==
    LET LeafHtml(node, lvl) ==
            IF node.node_type = "leaf" /\ node.component.kind # "none"
            THEN StyledLeaf(node.component, lvl)
            ELSE <<>>
        RowHtml(node, lvl) ==
            IF node.node_type = "row"
            THEN Join(<< Indent(lvl)
                           \o <<Lit("<div class=\"row-container\">")>> >>
                      \o [j \in 1..Len(node.children) |->
                            LeafHtml(node.children[j], lvl + 1)]
                      \o << Indent(lvl) \o <<Lit("</div>")>> >>)
            ELSE LeafHtml(node, lvl)
    IN  IF layout_node.node_type = "root"
        THEN Join(<< Indent(indent)
                       \o <<Lit("<div id=\"generated-content\">")>> >>
                  \o [j \in 1..Len(layout_node.children) |->
                        RowHtml(layout_node.children[j], indent + 1)]
                  \o << Indent(indent) \o <<Lit("</div>")>> >>)
        ELSE RowHtml(layout_node, indent)


\* ------------------------------------------------------- build_layout_tree
\* LayoutNode(component, node_type)
LayoutNode(component, node_type, children) ==
    [node_type |-> node_type, component |-> component, children |-> children]

\* Line 35: the sort key (c.bbox[1], c.bbox[0]), compared as a tuple.
KeyLeYX(a, b) ==
    \/ a.bbox[2] < b.bbox[2]
    \/ a.bbox[2] = b.bbox[2] /\ a.bbox[1] <= b.bbox[1]

\* sorted(components, key=(y, x)): stable, ascending.
RECURSIVE InsertByYX(_, _)
InsertByYX(s, c) ==
    IF s = <<>> THEN <<c>>
    ELSE IF KeyLeYX(Head(s), c) THEN <<Head(s)>> \o InsertByYX(Tail(s), c)
    ELSE <<c>> \o s

RECURSIVE SortByYXFrom(_, _, _)
SortByYXFrom(s, j, acc) ==
    IF j > Len(s) THEN acc
    ELSE SortByYXFrom(s, j + 1, InsertByYX(acc, s[j]))

SortByYX(s) == SortByYXFrom(s, 1, <<>>)

\* A row left in the order in which it was grouped.
InsertByX_unsorted(s, c) == Append(s, c)

\* Line 83: row_comps.sort(key=x): stable, ascending.
RECURSIVE InsertByX(_, _)
InsertByX(s, c) ==
    IF s = <<>> THEN <<c>>
    ELSE IF Head(s).bbox[1] <= c.bbox[1]
    THEN <<Head(s)>> \o InsertByX(Tail(s), c)
    ELSE <<c>> \o s

RECURSIVE SortByXFrom(_, _, _)
SortByXFrom(s, j, acc) ==
    IF j > Len(s) THEN acc
    ELSE SortByXFrom(s, j + 1, InsertByX(acc, s[j]))

SortByX(s) == SortByXFrom(s, 1, <<>>)

\* A reference that moves on to the member added last.
RowRef_last(row) == row[Len(row)]

\* Line 50: ref = current_row[0]
RowRef(row) == row[1]

\* Lines 51-64: vertical_distance < 0.6 * avg_height, with
\* vertical_distance = |curr_y + curr_h/2 - (ref_y + ref_h/2)| and
\* avg_height = (ref_h + curr_h) / 2; both sides times 10.
SameRow(ref, curr) ==
    LET ref_y == ref.bbox[2]
        ref_h == ref.bbox[4]
        curr_y == curr.bbox[2]
        curr_h == curr.bbox[4]
    IN  5 * Abs((2 * curr_y + curr_h) - (2 * ref_y + ref_h))
            < 3 * (ref_h + curr_h)

\* A build that drops the row still open when the scan ends.
CloseLastRow_forgotten(rws, row) == rws

\* Lines 74-75: if current_row: rows.append(current_row)
CloseLastRow(rws, row) == IF row # <<>> THEN Append(rws, row) ELSE rws

\* A variant of the placement loop that skips an already placed id without
\* a log entry.
RECURSIVE RowLeaves_silent(_, _, _)
RowLeaves_silent(row_comps, j, acc) ==
    IF j > Len(row_comps) THEN acc
    ELSE LET comp == row_comps[j]
         IN  IF comp.id \in acc.used
             THEN RowLeaves_silent(row_comps, j + 1, acc)
             ELSE RowLeaves_silent(row_comps, j + 1,
                    [acc EXCEPT
                        !.leaves = Append(@, LayoutNode(comp, "leaf", <<>>)),
                        !.used = @ \cup {comp.id}])

\* Lines 88-97: the leaves of a row of several components, from position j:
\* a component whose id is already used is skipped with a warning.
RECURSIVE RowLeaves(_, _, _)
RowLeaves(row_comps, j, acc) ==
    IF j > Len(row_comps) THEN acc
    ELSE LET comp == row_comps[j]
         IN  IF comp.id \in acc.used
             THEN RowLeaves(row_comps, j + 1,
                    [acc EXCEPT !.log = Append(@,
                        [level |-> "warning", what |-> "already used",
                         id |-> comp.id])])
             ELSE RowLeaves(row_comps, j + 1,
                    [acc EXCEPT
                        !.leaves = Append(@, LayoutNode(comp, "leaf", <<>>)),
                        !.used = @ \cup {comp.id}])


\* Lines 45-71 as a function: the closed rows and the row still open after
\* the grouping loop has processed sorted_list from position j on.
RECURSIVE GroupRows(_, _, _, _)
GroupRows(sorted_list, j, row, rws) ==
    IF j > Len(sorted_list) THEN [rows |-> rws, current_row |-> row]
    ELSE LET curr == sorted_list[j]
         IN  IF SameRow(RowRef(row), curr)
             THEN GroupRows(sorted_list, j + 1, Append(row, curr), rws)
             ELSE GroupRows(sorted_list, j + 1, <<curr>>, Append(rws, row))

\* Lines 84-114 for one row: acc holds the children of the root, the used
\* ids and the log.
PlaceRow(row, acc) ==
    LET row_comps == SortByX(row)
    IN  IF Len(row_comps) > 1
        THEN LET r == RowLeaves(row_comps, 1,
                          [leaves |-> <<>>, used |-> acc.used,
                           log |-> acc.log])
             IN  [children |-> IF r.leaves # <<>>
                               THEN Append(acc.children,
                                      LayoutNode(NoComponent, "row", r.leaves))
                               ELSE acc.children,
                  used |-> r.used,
                  log |-> r.log]
        ELSE LET comp == row_comps[1]
             IN  IF comp.id \in acc.used
                 THEN [acc EXCEPT !.log = Append(@,
                          [level |-> "warning", what |-> "already used",
                           id |-> comp.id])]
                 ELSE [acc EXCEPT
                          !.children = Append(@,
                              LayoutNode(comp, "leaf", <<>>)),
                          !.used = @ \cup {comp.id}]

RECURSIVE PlaceRows(_, _, _)
PlaceRows(rws, j, acc) ==
    IF j > Len(rws) THEN acc
    ELSE PlaceRows(rws, j + 1, PlaceRow(rws[j], acc))

\* build_layout_tree(components), lines 17-122, as a function of its input:
\* the exception it ends in ("" if none), the root it returns and the log.
\* The sort key of line 35 reads c.bbox as an attribute, which only a
\* Component object has.
build_layout_tree(comps) ==
    IF comps = <<>>
    THEN [exc |-> "", root |-> LayoutNode(NoComponent, "root", <<>>),
          log |-> <<>>]
    ELSE IF \E j \in 1..Len(comps) : comps[j].kind # "obj"
    THEN [exc |-> "AttributeError",
          root |-> LayoutNode(NoComponent, "root", <<>>), log |-> <<>>]
    ELSE LET sorted_list == SortByYX(comps)
             g == GroupRows(sorted_list, 2, <<sorted_list[1]>>, <<>>)
             rws == CloseLastRow(g.rows, g.current_row)
             r == PlaceRows(rws, 1,
                            [children |-> <<>>, used |-> {}, log |-> <<>>])
         IN  [exc |-> "",
              root |-> LayoutNode(NoComponent, "root", r.children),
              log |-> Append(r.log,
                        IF Cardinality(r.used) # Len(comps)
                        THEN [level |-> "error", what |-> "count mismatch",
                              id |-> 0]
                        ELSE [level |-> "info", what |-> "built",
                              id |-> 0])]

\* ------------------------------------------------------------ input pools
\* Boxes around A = (0,0,100,100) that sit on and next to each threshold.
DedupPool ==
    { [type |-> "button", bbox |-> <<0, 0, 100, 100>>],
      [type |-> "button", bbox |-> <<5, 5, 95, 95>>],
      [type |-> "box",    bbox |-> <<0, 0, 100, 75>>],
      [type |-> "button", bbox |-> <<0, 0, 100, 50>>],
      [type |-> "box",    bbox |-> <<0, 0, 100, 50>>],
      [type |-> "button", bbox |-> <<0, 0, 100, 40>>],
      [type |-> "box",    bbox |-> <<20, 0, 100, 100>>],
      [type |-> "box",    bbox |-> <<10, 0, 100, 90>>],
      [type |-> "box",    bbox |-> <<15, 0, 100, 85>>],
      [type |-> "button", bbox |-> <<200, 200, 50, 50>>],
      [type |-> "button", bbox |-> <<100, 0, 50, 50>>] }

\* detect_components, lines 68-69: ids are assigned in detection order.
Detected(picked) ==
    [j \in 1..Len(picked) |->
        Component(j, picked[j].type, picked[j].bbox, <<>>)]

SeqsUpTo(S, n) == UNION { [1..m -> S] : m \in 0..n }

\* Shapes for the layout: the rows A, B / C of the design document, a box
\* above and to the right of A, and two boxes below A, one on the row
\* boundary of A and one inside it.
LayoutPool ==
    { [type |-> "button",    bbox |-> <<10, 10, 100, 40>>],
      [type |-> "input",     bbox |-> <<130, 12, 100, 40>>],
      [type |-> "container", bbox |-> <<10, 100, 200, 40>>],
      [type |-> "checkbox",  bbox |-> <<130, 8, 100, 40>>],
      [type |-> "box",       bbox |-> <<10, 34, 100, 40>>],
      [type |-> "label",     bbox |-> <<10, 30, 100, 40>>] }

\* app.convert_design, lines 120-127: the defaults of a shape's styles.
DefaultStyles ==
    [fillColor |-> "transparent", borderColor |-> "#000", borderWidth |-> 2,
     borderRadius |-> 0, fontSize |-> 16, fontColor |-> "#000"]

\* An id is the component's position, or a repeat of the first id.
IdChoices(n) == { f \in [1..n -> 1..n] : \A j \in 1..n : f[j] \in {j, 1} }

LayoutInput(picked, ids, kind) ==
    [j \in 1..Len(picked) |->
        IF kind = "obj"
        THEN Component(ids[j], picked[j].type, picked[j].bbox, <<>>)
        ELSE DictComponent(ids[j], picked[j].type, picked[j].bbox, <<>>,
                           DefaultStyles)]

LayoutInputs ==
    UNION { { LayoutInput(s, ids, kind) :
                ids \in IdChoices(Len(s)), kind \in {"obj", "dict"} } :
            s \in SeqsUpTo(LayoutPool, MaxComps) }

\* The five markup-significant characters, and what it takes to spell an
\* entity or a word.
Alphabet == {"&", "<", ">", "\"", "'", "l", "t", ";", "L"}

ExampleText ==
    <<"S", "u", "b", "m", "i", "t", " ", "&", " ", "<", "C", "l", "o", "s",
      "e", ">">>

ExampleEscaped ==
    <<"S", "u", "b", "m", "i", "t", " ", "&", "a", "m", "p", ";", " ", "&",
      "l", "t", ";", "C", "l", "o", "s", "e", "&", "g", "t", ";">>

\* Every text up to MaxTextLen characters, the text of the design
\* document, and three texts that spell an entity.
Texts ==
    SeqsUpTo(Alphabet, MaxTextLen)
        \cup {ExampleText, LtEntity, AmpEntity, AposEntity}

\* text_extractor.extract_text, lines 62-72, and normalize_text: what the
\* recognizer returns holds word characters only and does not start with a
\* lower-case letter; it is empty when nothing was read or OCR failed.
OcrTexts ==
    { t \in SeqsUpTo({"l", "t", "L"}, MaxTextLen) :
        t # <<>> => t[1] = "L" }

\* Two boxes: aspect ratio 2 and aspect ratio 4.
EmitBoxes == {<<0, 0, 100, 50>>, <<0, 0, 200, 50>>}

CustomStyles ==
    [fillColor |-> "#fff", borderColor |-> "", borderWidth |-> 2,
     borderRadius |-> 4, fontSize |-> 0, fontColor |-> "#000"]

\* ------------------------------------------------------------- idle states
IdleClassify ==
    /\ w = 0 /\ h = 0 /\ comp_type = "" /\ cpc = "idle"

IdleDedup ==
    /\ components = <<>> /\ sorted_comps = <<>> /\ keep = <<>>
    /\ di = 0 /\ dlog = <<>> /\ dresult = <<>> /\ refiltered = <<>>
    /\ dpc = "idle"

IdleLayout ==
    /\ lcomps = <<>> /\ layout_sorted = <<>> /\ current_row = <<>>
    /\ rows = <<>> /\ li = 0 /\ ri = 0
    /\ root = LayoutNode(NoComponent, "root", <<>>)
    /\ used_component_ids = {} /\ llog = <<>> /\ html = <<>> /\ css = <<>>
    /\ lpc = "idle"

IdleEmit ==
    /\ ecomp = NoComponent /\ ocr = <<>> /\ emode = "idle" /\ eout = <<>>
    /\ epc = "idle"

\* No response has been sent.
NoResponse ==
    [status |-> 0, detail |-> "", html |-> <<>>, css |-> <<>>,
     components |-> <<>>]

IdleDesign ==
    /\ shapes = <<>> /\ design_components = <<>>
    /\ response = NoResponse /\ xpc = "idle"

\* ------------------------------------------------- specification: classify
InitClassify ==
    /\ w \in 1..MaxDim
    /\ h \in 1..MaxDim
    /\ comp_type = ""
    /\ cpc = "call"
    /\ IdleDedup
    /\ IdleLayout
    /\ IdleEmit
    /\ IdleDesign

\* detect_components, lines 55-65: area = w * h, aspect_ratio = float(w) / h
Classify ==
    /\ cpc = "call"
    /\ comp_type' = classify_shape(w, h, w * h, <<w, h>>)
    /\ cpc' = "returned"
    /\ UNCHANGED <<w, h, dvars, lvars, evars,
                   xvars>>

NextClassify == Classify

SpecClassify == InitClassify /\ [][NextClassify]_vars

\* ---------------------------------------------------- specification: dedup
InitDedup ==
    /\ components \in { Detected(s) : s \in SeqsUpTo(DedupPool, MaxComps) }
    /\ sorted_comps = <<>>
    /\ keep = <<>>
    /\ di = 0
    /\ dlog = <<>>
    /\ dresult = <<>>
    /\ refiltered = <<>>
    /\ dpc = "call"
    /\ IdleClassify
    /\ IdleLayout
    /\ IdleEmit
    /\ IdleDesign

\* Lines 99-100: the empty list returns at once.
FilterEmpty ==
    /\ dpc = "call"
    /\ Len(components) = 0
    /\ dresult' = <<>>
    /\ dpc' = "returned"
    /\ UNCHANGED <<components, sorted_comps, keep, di, dlog, refiltered,
                   cvars, lvars, evars,
                   xvars>>

\* Lines 103-106.
FilterSort ==
    /\ dpc = "call"
    /\ Len(components) # 0
    /\ sorted_comps' = SortByAreaDesc(components)
    /\ keep' = <<>>
    /\ di' = 0
    /\ dpc' = "loop"
    /\ UNCHANGED <<components, dlog, dresult, refiltered, cvars, lvars,
                   evars,
                   xvars>>

\* Lines 108-161: one pass of the outer loop.
FilterStep ==
    /\ dpc = "loop"
    /\ di < Len(sorted_comps)
    /\ LET current == sorted_comps[di + 1]
           r == ScanKeep(current, keep, 1)
       IN  IF r.dup
           THEN /\ dlog' = Append(dlog, [id |-> current.id, by |-> r.by,
                                         method |-> r.method])
                /\ keep' = keep
           ELSE /\ keep' = Append(keep, current)
                /\ dlog' = dlog
    /\ di' = di + 1
    /\ UNCHANGED <<components, sorted_comps, dresult, refiltered, dpc,
                   cvars, lvars, evars,
                   xvars>>

\* Lines 163-164.
FilterReturn ==
    /\ dpc = "loop"
    /\ di = Len(sorted_comps)
    /\ dresult' = keep
    /\ dpc' = "returned"
    /\ UNCHANGED <<components, sorted_comps, keep, di, dlog, refiltered,
                   cvars, lvars, evars,
                   xvars>>

\* A second call of filter_duplicates, on the list the first call returned.
FilterAgain ==
    /\ dpc = "returned"
    /\ refiltered' = filter_duplicates(dresult)
    /\ dpc' = "refiltered"
    /\ UNCHANGED <<components, sorted_comps, keep, di, dlog, dresult,
                   cvars, lvars, evars,
                   xvars>>

NextDedup ==
    FilterEmpty \/ FilterSort \/ FilterStep \/ FilterReturn \/ FilterAgain

SpecDedup == InitDedup /\ [][NextDedup]_vars


\* --------------------------------------------------- specification: layout
InitLayout ==
    /\ lcomps \in LayoutInputs
    /\ layout_sorted = <<>>
    /\ current_row = <<>>
    /\ rows = <<>>
    /\ li = 0
    /\ ri = 0
    /\ root = LayoutNode(NoComponent, "root", <<>>)
    /\ used_component_ids = {}
    /\ llog = <<>>
    /\ html = <<>>
    /\ css = <<>>
    /\ lpc = "call"
    /\ IdleClassify
    /\ IdleDedup
    /\ IdleEmit
    /\ IdleDesign

\* Lines 25-29: no components, the bare root is returned.
LayoutEmpty ==
    /\ lpc = "call"
    /\ lcomps = <<>>
    /\ lpc' = "returned"
    /\ UNCHANGED <<lcomps, layout_sorted, current_row, rows, li, ri, root,
                   used_component_ids, llog, html, css, cvars, dvars, evars,
                   xvars>>

\* Line 35 on a list of dicts: the sort key reads c.bbox, which a dict does
\* not have, and the call ends in AttributeError.
LayoutSortRaises ==
    /\ lpc = "call"
    /\ lcomps # <<>>
    /\ lcomps[1].kind # "obj"
    /\ lpc' = "raised"
    /\ UNCHANGED <<lcomps, layout_sorted, current_row, rows, li, ri, root,
                   used_component_ids, llog, html, css, cvars, dvars, evars,
                   xvars>>

\* Lines 32-43: sort, and open the first row with the first component.
LayoutSort ==
    /\ lpc = "call"
    /\ lcomps # <<>>
    /\ lcomps[1].kind = "obj"
    /\ layout_sorted' = SortByYX(lcomps)
    /\ current_row' = <<layout_sorted'[1]>>
    /\ rows' = <<>>
    /\ li' = 1
    /\ lpc' = "group"
    /\ UNCHANGED <<lcomps, ri, root, used_component_ids, llog, html, css,
                   cvars, dvars, evars,
                   xvars>>

\* Lines 45-71: one pass of the grouping loop.
GroupStep ==
    /\ lpc = "group"
    /\ li < Len(layout_sorted)
    /\ LET curr == layout_sorted[li + 1]
           ref == RowRef(current_row)
       IN  IF SameRow(ref, curr)
           THEN /\ current_row' = Append(current_row, curr)
                /\ rows' = rows
           ELSE /\ rows' = Append(rows, current_row)
                /\ current_row' = <<curr>>
    /\ li' = li + 1
    /\ UNCHANGED <<lcomps, layout_sorted, ri, root, used_component_ids, llog,
                   html, css, lpc, cvars, dvars, evars,
                   xvars>>

\* Lines 73-78: the row still open is closed.
GroupEnd ==
    /\ lpc = "group"
    /\ li = Len(layout_sorted)
    /\ rows' = CloseLastRow(rows, current_row)
    /\ ri' = 0
    /\ lpc' = "convert"
    /\ UNCHANGED <<lcomps, layout_sorted, current_row, li, root,
                   used_component_ids, llog, html, css, cvars, dvars, evars,
                   xvars>>

\* Lines 81-114: one row becomes a row node or a leaf under the root.  The
\* row is sorted in place.
ConvertRow ==
    /\ lpc = "convert"
    /\ ri < Len(rows)
    /\ LET row_comps == SortByX(rows[ri + 1])
       IN  /\ rows' = [rows EXCEPT ![ri + 1] = row_comps]
           /\ IF Len(row_comps) > 1
              THEN LET r == RowLeaves(row_comps, 1,
                                [leaves |-> <<>>, used |-> used_component_ids,
                                 log |-> llog])
                   IN  /\ used_component_ids' = r.used
                       /\ llog' = r.log
                       /\ root' = IF r.leaves # <<>>
                                  THEN [root EXCEPT !.children = Append(@,
                                          LayoutNode(NoComponent, "row",
                                                     r.leaves))]
                                  ELSE root
              ELSE LET comp == row_comps[1]
                   IN  IF comp.id \in used_component_ids
                       THEN /\ llog' = Append(llog,
                                  [level |-> "warning",
                                   what |-> "already used", id |-> comp.id])
                            /\ UNCHANGED <<root, used_component_ids>>
                       ELSE /\ root' = [root EXCEPT !.children = Append(@,
                                          LayoutNode(comp, "leaf", <<>>))]
                            /\ used_component_ids' =
                                  used_component_ids \cup {comp.id}
                            /\ llog' = llog
    /\ ri' = ri + 1
    /\ UNCHANGED <<lcomps, layout_sorted, current_row, li, html, css, lpc,
                   cvars, dvars, evars,
                   xvars>>

\* Lines 116-122: the count check, and the return of the root.
Validate ==
    /\ lpc = "convert"
    /\ ri = Len(rows)
    /\ llog' = IF Cardinality(used_component_ids) # Len(lcomps)
               THEN Append(llog, [level |-> "error",
                                  what |-> "count mismatch", id |-> 0])
               ELSE Append(llog, [level |-> "info",
                                  what |-> "built", id |-> 0])
    /\ lpc' = "returned"
    /\ UNCHANGED <<lcomps, layout_sorted, current_row, rows, li, ri, root,
                   used_component_ids, html, css, cvars, dvars, evars,
                   xvars>>

\* app.upload_image, lines 69-70: the class-based emission of the tree.
EmitTree ==
    /\ lpc = "returned"
    /\ html' = generate_html(root, 0)
    /\ css' = generate_css
    /\ lpc' = "emitted"
    /\ UNCHANGED <<lcomps, layout_sorted, current_row, rows, li, ri, root,
                   used_component_ids, llog, cvars, dvars, evars,
                   xvars>>

\* app.convert_design, lines 135-138: the inline-style emission of the tree.
EmitTreeStyled ==
    /\ lpc = "returned"
    /\ html' = generate_html_with_styles(root, 0)
    /\ css' = generate_css_with_styles(lcomps)
    /\ lpc' = "emitted styled"
    /\ UNCHANGED <<lcomps, layout_sorted, current_row, rows, li, ri, root,
                   used_component_ids, llog, cvars, dvars, evars,
                   xvars>>

NextLayout ==
    \/ LayoutEmpty \/ LayoutSortRaises \/ LayoutSort \/ GroupStep \/ GroupEnd
    \/ ConvertRow \/ Validate \/ EmitTree \/ EmitTreeStyled

SpecLayout == InitLayout /\ [][NextLayout]_vars

\* ----------------------------------------------------- specification: emit
InitEmit ==
    /\ emode \in {"class", "inline", "upload"}
    /\ \/ /\ emode = "class"
          /\ ecomp \in { Component(1, ty, bb, t) :
                           ty \in {"button", "input", "label", "checkbox",
                                   "container", "box"},
                           bb \in EmitBoxes, t \in Texts }
          /\ ocr = <<>>
       \/ /\ emode = "inline"
          /\ ecomp \in { DictComponent(1, ty, bb, t, st) :
                           ty \in {"rect", "text", "circle", "button",
                                   "input", "label", "checkbox"},
                           bb \in EmitBoxes, t \in Texts,
                           st \in {DefaultStyles, CustomStyles} }
          /\ ocr = <<>>
       \/ /\ emode = "upload"
          /\ ecomp \in { Component(1, ty, bb, <<>>) :
                           ty \in {"button", "input", "label", "checkbox",
                                   "container", "box"},
                           bb \in EmitBoxes }
          /\ ocr \in OcrTexts
    /\ eout = <<>>
    /\ epc = "call"
    /\ IdleClassify
    /\ IdleDedup
    /\ IdleLayout
    /\ IdleDesign

\* html_gen.generate_html on a leaf under the root (indent_level 0).
EmitComponent ==
    /\ epc = "call"
    /\ emode = "class"
    /\ eout' = generate_html(LayoutNode(ecomp, "leaf", <<>>), 0)
    /\ epc' = "emitted"
    /\ UNCHANGED <<ecomp, ocr, emode, cvars, dvars, lvars,
                   xvars>>

\* html_gen_styled.generate_html_with_styles on a leaf under the root
\* (indent 1).
EmitStyledComponent ==
    /\ epc = "call"
    /\ emode = "inline"
    /\ eout' = generate_html_with_styles(LayoutNode(ecomp, "leaf", <<>>), 1)
    /\ epc' = "emitted"
    /\ UNCHANGED <<ecomp, ocr, emode, cvars, dvars, lvars,
                   xvars>>

\* A text-fill step that leaves the recognizer's text off containers and
\* boxes.
text_fill_eligible_only(comp, recognized) ==
    IF comp.type \in {"container", "box"} THEN comp
    ELSE LET c == [comp EXCEPT !.text = recognized]
         IN  IF c.text = <<>>
             THEN IF c.type = "button" THEN [c EXCEPT !.text = Chars_Button]
                  ELSE IF c.type = "input"
                  THEN [c EXCEPT !.text = Chars_EnterText]
                  ELSE IF c.type = "label"
                  THEN [c EXCEPT !.text = Chars_Label]
                  ELSE IF c.type = "checkbox"
                  THEN [c EXCEPT !.text = Chars_Option]
                  ELSE c
             ELSE c

\* app.upload_image, lines 54-63: comp.text = extract_text(...), then the
\* fallback of the type when the text is empty.
text_fill(comp, recognized) ==
    LET c == [comp EXCEPT !.text = recognized]
    IN  IF c.text = <<>>
        THEN IF c.type = "button" THEN [c EXCEPT !.text = Chars_Button]
             ELSE IF c.type = "input" THEN [c EXCEPT !.text = Chars_EnterText]
             ELSE IF c.type = "label" THEN [c EXCEPT !.text = Chars_Label]
             ELSE IF c.type = "checkbox"
             THEN [c EXCEPT !.text = Chars_Option]
             ELSE c
        ELSE c

TextFill ==
    /\ epc = "call"
    /\ emode = "upload"
    /\ ecomp' = text_fill(ecomp, ocr)
    /\ epc' = "filled"
    /\ UNCHANGED <<ocr, emode, eout, cvars, dvars, lvars,
                   xvars>>

\* app.upload_image, line 69, on the text-filled component.
EmitFilled ==
    /\ epc = "filled"
    /\ eout' = generate_html(LayoutNode(ecomp, "leaf", <<>>), 0)
    /\ epc' = "emitted"
    /\ UNCHANGED <<ecomp, ocr, emode, cvars, dvars, lvars,
                   xvars>>

NextEmit == EmitComponent \/ EmitStyledComponent \/ TextFill \/ EmitFilled

SpecEmit == InitEmit /\ [][NextEmit]_vars

\* ================================================================= claims
\* ------------------------------------------- specification: convert_design
\* A field of a shape of the request body: absent, an integer, or a value
\* int() does not accept.
Missing == [tag |-> "missing", n |-> 0]
IntField(n) == [tag |-> "int", n |-> n]
NonNumeric == [tag |-> "str", n |-> 0]

\* int(shape.get(key, default)), lines 113-116: the default stands in for an
\* absent key, a non-numeric value raises ValueError, and any integer,
\* zero and negative ones included, is taken as it is.
IntOf(field, default) ==
    IF field.tag = "missing" THEN [exc |-> "", n |-> default]
    ELSE IF field.tag = "int" THEN [exc |-> "", n |-> field.n]
    ELSE [exc |-> "ValueError", n |-> 0]

\* Lines 108-128: the component dict of the shape at position j (ids are
\* comp_000, comp_001, ... in request order), or the exception of int().
ShapeComponent(shape, j) ==
    LET x == IntOf(shape.x, 0)
        y == IntOf(shape.y, 0)
        cw == IntOf(shape.w, 100)
        ch == IntOf(shape.h, 50)
    IN  IF x.exc # "" \/ y.exc # "" \/ cw.exc # "" \/ ch.exc # ""
        THEN [exc |-> "ValueError", comp |-> NoComponent]
        ELSE [exc |-> "",
              comp |-> DictComponent(j, shape.type,
                                     <<x.n, y.n, cw.n, ch.n>>, <<>>,
                                     DefaultStyles)]

\* Lines 106-129: the loop over the shapes, from position j on; it ends at
\* the first shape whose conversion raises.
RECURSIVE ShapeComponents(_, _, _)
ShapeComponents(shps, j, acc) ==
    IF j > Len(shps) THEN [exc |-> "", comps |-> acc]
    ELSE LET c == ShapeComponent(shps[j], j)
         IN  IF c.exc # "" THEN [exc |-> c.exc, comps |-> acc]
             ELSE ShapeComponents(shps, j + 1, Append(acc, c.comp))

\* Lines 148-150: whatever the body raised becomes a response of status 500
\* whose detail is the text of the exception, here its class.
ErrorResponse(exc) ==
    [status |-> 500, detail |-> exc, html |-> <<>>, css |-> <<>>,
     components |-> <<>>]

\* Lines 142-146.
ResultResponse(markup, stylesheet, comps) ==
    [status |-> 200, detail |-> "", html |-> markup, css |-> stylesheet,
     components |-> comps]

\* The shapes of a request: well-formed ones of three types, and one for
\* each way a bbox dimension can be malformed.
DesignPool ==
    { [type |-> "rect", x |-> IntField(10), y |-> IntField(10),
       w |-> IntField(100), h |-> IntField(40)],
      [type |-> "text", x |-> IntField(130), y |-> IntField(12),
       w |-> IntField(100), h |-> IntField(40)],
      [type |-> "circle", x |-> IntField(10), y |-> IntField(100),
       w |-> IntField(200), h |-> IntField(40)],
      [type |-> "rect", x |-> IntField(10), y |-> IntField(200),
       w |-> Missing, h |-> IntField(40)],
      [type |-> "rect", x |-> IntField(10), y |-> IntField(200),
       w |-> IntField(100), h |-> NonNumeric],
      [type |-> "rect", x |-> IntField(10), y |-> IntField(200),
       w |-> IntField(0), h |-> IntField(40)],
      [type |-> "rect", x |-> IntField(10), y |-> IntField(200),
       w |-> IntField(100), h |-> IntField(-5)] }

InitDesign ==
    /\ shapes \in SeqsUpTo(DesignPool, MaxComps)
    /\ design_components = <<>>
    /\ response = NoResponse
    /\ xpc = "call"
    /\ IdleClassify
    /\ IdleDedup
    /\ IdleLayout
    /\ IdleEmit

\* app.convert_design, lines 91-150, from the parsed body to the response.
\* The HTTPException(400) of line 102 is raised inside the try block and is
\* caught, like every other exception, by the handler of line 148.
ConvertDesign ==
    /\ xpc = "call"
    /\ IF shapes = <<>>
       THEN /\ design_components' = <<>>
            /\ response' = ErrorResponse("HTTPException")
       ELSE LET built == ShapeComponents(shapes, 1, <<>>)
                layout_tree == build_layout_tree(built.comps)
                markup == generate_html_with_styles(layout_tree.root, 0)
            IN  /\ design_components' = built.comps
                /\ response' =
                     IF built.exc # "" THEN ErrorResponse(built.exc)
                     ELSE IF layout_tree.exc # ""
                     THEN ErrorResponse(layout_tree.exc)
                     ELSE IF IsRaised(markup)
                     THEN ErrorResponse(markup[1].v[1])
                     ELSE ResultResponse(markup,
                            generate_css_with_styles(built.comps),
                            built.comps)
    /\ xpc' = "done"
    /\ UNCHANGED <<shapes, cvars, dvars, lvars, evars>>

NextDesign == ConvertDesign

SpecDesign == InitDesign /\ [][NextDesign]_vars

Types == {"checkbox", "input", "button", "container", "box"}

\* The rule table of the classifier, in priority order.
Rules(rw, rh) ==
    << [cond |-> 200 < rw * rh /\ rw * rh < 2000
                 /\ 10 * rw > 8 * rh /\ 10 * rw < 12 * rh,
        res |-> "checkbox"],
       [cond |-> 10 * rw > 25 * rh /\ rh < 60, res |-> "input"],
       [cond |-> 10 * rw > 15 * rh /\ rw < 4 * rh /\ rh > 30
                 /\ rw * rh < 20000,
        res |-> "button"],
       [cond |-> rw * rh > 40000, res |-> "container"] >>

FirstMatch(rw, rh) ==
    LET R == Rules(rw, rh)
        hits == { i \in 1..Len(R) : R[i].cond }
    IN  IF hits = {} THEN "box"
        ELSE R[CHOOSE i \in hits : \A j \in hits : i <= j].res

\* C5: classify_shape is total and first-match-wins over the rules
\* checkbox, input, button, container (all bounds strict), falling back to
\* box; the result is one of the five types; 40x40 is a checkbox, 220x40 an
\* input, 300x300 a container and 13x13 a box.
C5_ClassifyFirstMatch ==
    cpc = "returned" =>
        /\ comp_type \in Types
        /\ comp_type = FirstMatch(w, h)
        /\ (w = 40 /\ h = 40) => comp_type = "checkbox"
        /\ (w = 220 /\ h = 40) => comp_type = "input"
        /\ (w = 300 /\ h = 300) => comp_type = "container"
        /\ (w = 13 /\ h = 13) => comp_type = "box"

\* A geometry on which both the input and the button rule hold has been
\* classified.
C5_Witness ==
    /\ cpc = "returned"
    /\ w = 120 /\ h = 40
    /\ Rules(w, h)[2].cond /\ Rules(w, h)[3].cond
    /\ comp_type = "input"

\* The components of a sequence, as a set.
Range(s) == { s[j] : j \in 1..Len(s) }

IdsOf(s) == { s[j].id : j \in 1..Len(s) }

\* The duplicate rule as the specification states it.
SpecIntersection(c, k) ==
    LET ox == Min(c.bbox[1] + c.bbox[3], k.bbox[1] + k.bbox[3])
                - Max(c.bbox[1], k.bbox[1])
        oy == Min(c.bbox[2] + c.bbox[4], k.bbox[2] + k.bbox[4])
                - Max(c.bbox[2], k.bbox[2])
    IN  IF ox > 0 /\ oy > 0 THEN ox * oy ELSE 0

SpecOverlapTest(c, k) ==
    LET i == SpecIntersection(c, k)
    IN  100 * i > 75 * (Area(c) + Area(k) - i)

SpecContainmentTest(c, k) ==
    /\ 100 * SpecIntersection(c, k) >= 80 * Area(c)
    /\ IF c.type = k.type
       THEN 10 * Area(c) > 4 * Area(k)
       ELSE 100 * Area(c) > 85 * Area(k)

SpecDuplicate(c, k) == SpecOverlapTest(c, k) \/ SpecContainmentTest(c, k)

\* C2: the components are processed in descending-area order; a processed
\* component is discarded if and only if some component kept before it makes
\* it a duplicate under the overlap test or the containment test, and every
\* other processed component is appended to the kept list.
C2_DuplicateRule ==
    dpc \in {"loop", "returned"} =>
        /\ \A j \in 1..(Len(sorted_comps) - 1) :
              Area(sorted_comps[j]) >= Area(sorted_comps[j + 1])
        /\ \A j \in 1..di :
              LET c == sorted_comps[j]
                  keptBefore == { sorted_comps[m] : m \in
                                    { n \in 1..(j - 1) :
                                        sorted_comps[n].id \in IdsOf(keep) } }
              IN  (c.id \notin IdsOf(keep))
                    <=> (\E k \in keptBefore : SpecDuplicate(c, k))
        /\ LET Kept(c) == c.id \in IdsOf(keep)
           IN  keep = SelectSeq(SubSeq(sorted_comps, 1, di), Kept)

\* A call has returned in which one component was discarded by the
\* containment test and another, overlapping a kept one, was kept.
C2_Witness ==
    /\ dpc = "returned"
    /\ Len(dresult) = 2
    /\ SpecIntersection(dresult[1], dresult[2]) > 0
    /\ \E j \in 1..Len(dlog) : dlog[j].method = "similar size"

\* C3: the returned list is a sub-collection of the input, never longer,
\* in non-increasing area order with equal areas in detection order; the
\* kept component that makes another a duplicate is larger, or of equal
\* area and detected earlier.
C3_SubsetStableOrder ==
    dpc = "returned" =>
        /\ Len(dresult) <= Len(components)
        /\ \A m \in 1..Len(dresult) : dresult[m] \in Range(components)
        /\ \A m, n \in 1..Len(dresult) :
              m < n => /\ dresult[m].id # dresult[n].id
                       /\ Area(dresult[m]) >= Area(dresult[n])
                       /\ Area(dresult[m]) = Area(dresult[n])
                            => dresult[m].id < dresult[n].id
        /\ \A j \in 1..Len(dlog) :
              LET c == components[dlog[j].id]
                  k == components[dlog[j].by]
              IN  /\ k \in Range(dresult)
                  /\ c \notin Range(dresult)
                  /\ \/ Area(k) > Area(c)
                     \/ Area(k) = Area(c) /\ k.id < c.id

\* Two equal-area components were duplicates of each other and the earlier
\* one survived, next to a second survivor of the same area.
C3_Witness ==
    /\ dpc = "returned"
    /\ \E j \in 1..Len(dlog) :
          /\ Area(components[dlog[j].id]) = Area(components[dlog[j].by])
          /\ dlog[j].by < dlog[j].id
    /\ Len(dresult) = 2

ExampleA == Component(1, "button", <<0, 0, 100, 100>>, <<>>)
ExampleB == Component(2, "button", <<5, 5, 95, 95>>, <<>>)

\* C4 as stated: on A = (0,0,100,100), B = (5,5,95,95) of one type the
\* overlap test does not make B a duplicate; the containment test discards
\* it; the kept set is {A}.
C4_AsStated ==
    (dpc = "returned" /\ components = <<ExampleA, ExampleB>>) =>
        /\ ~HighIoU(Intersection(ExampleB, ExampleA),
                    Area(ExampleB) + Area(ExampleA)
                        - Intersection(ExampleB, ExampleA))
        /\ dlog = <<[id |-> 2, by |-> 1, method |-> "same type"]>>
        /\ dresult = <<ExampleA>>

\* C4 amended: on that input the intersection is 9025 of a union of 10000,
\* the overlap test discards B (IoU 0.9025 > 0.75), the containment test is
\* not reached, and the kept set is {A}.
C4_DiscardedByOverlap ==
    (dpc = "returned" /\ components = <<ExampleA, ExampleB>>) =>
        /\ Intersection(ExampleB, ExampleA) = 9025
        /\ Area(ExampleB) + Area(ExampleA)
              - Intersection(ExampleB, ExampleA) = 10000
        /\ dlog = <<[id |-> 2, by |-> 1, method |-> "IoU"]>>
        /\ dresult = <<ExampleA>>

\* The worked example has been filtered.
C4_Witness ==
    /\ dpc = "returned"
    /\ components = <<ExampleA, ExampleB>>
    /\ Len(dlog) = 1

\* ---------------------------------------------------------- layout claims
Built == lpc \in {"returned", "emitted", "emitted styled"}

DistinctIds(s) == \A i, j \in 1..Len(s) : i # j => s[i].id # s[j].id

RECURSIVE Flatten(_)
Flatten(ss) == IF ss = <<>> THEN <<>> ELSE Head(ss) \o Flatten(Tail(ss))

\* The components wrapped by the leaves of a node, left to right.
LeavesOf(node) ==
    IF node.node_type = "leaf" THEN <<node.component>>
    ELSE [j \in 1..Len(node.children) |-> node.children[j].component]

\* The components in the leaves directly under the root and inside its row
\* nodes, in tree order.
TreeLeaves == Flatten([j \in 1..Len(root.children) |->
                          LeavesOf(root.children[j])])

WellShaped ==
    \A j \in 1..Len(root.children) :
        LET ch == root.children[j]
        IN  /\ ch.node_type \in {"leaf", "row"}
            /\ ch.node_type = "leaf" => ch.children = <<>>
            /\ ch.node_type = "row" =>
                  \A m \in 1..Len(ch.children) :
                      /\ ch.children[m].node_type = "leaf"
                      /\ ch.children[m].children = <<>>

\* C1: for a non-empty list with pairwise distinct ids, the returned tree
\* holds every input id in exactly one leaf and no other id, counting the
\* leaves under the root and those inside row nodes.
C1_Conservation ==
    (Built /\ lcomps # <<>> /\ DistinctIds(lcomps)) =>
        /\ WellShaped
        /\ Len(TreeLeaves) = Len(lcomps)
        /\ DistinctIds(TreeLeaves)
        /\ IdsOf(TreeLeaves) = IdsOf(lcomps)
        /\ Range(TreeLeaves) = Range(lcomps)

\* A tree of three distinct components with a row node and a leaf under the
\* root has been returned.
C1_Witness ==
    /\ lpc = "returned"
    /\ Len(lcomps) = 3
    /\ DistinctIds(lcomps)
    /\ Len(root.children) = 2
    /\ root.children[1].node_type = "row"
    /\ root.children[2].node_type = "leaf"

\* Twice the centre of a box on the y axis.
CenterY2(c) == 2 * c.bbox[2] + c.bbox[4]

\* |centerY(c) - centerY(ref)| < 0.6 * (h(c) + h(ref)) / 2, times 20.
SpecJoins(c, ref) ==
    10 * Abs(CenterY2(c) - CenterY2(ref)) < 6 * (c.bbox[4] + ref.bbox[4])

Count(s, c) == Cardinality({ j \in 1..Len(s) : s[j] = c })

\* The rows while they are grouped, the open row last.
GroupedRows == IF lpc = "group" THEN Append(rows, current_row) ELSE rows

LayoutA == Component(1, "button", <<10, 10, 100, 40>>, <<>>)
LayoutB == Component(2, "input", <<130, 12, 100, 40>>, <<>>)
LayoutC == Component(3, "container", <<10, 100, 200, 40>>, <<>>)

\* C6: the components are scanned in ascending (y, x) order; the rows are
\* consecutive runs of that order; every member of a row satisfies the
\* inequality against the row's first member, and the first member of each
\* later row fails it against the first member of the row before; A, B, C
\* of the design document give the rows [A, B] and [C] and the tree
\* Root[Row[Leaf(A), Leaf(B)], Leaf(C)].
C6_RowGrouping ==
    /\ (lpc = "group" \/ (lpc = "convert" /\ ri = 0)) =>
          /\ \A c \in Range(lcomps) \cup Range(layout_sorted) :
                Count(layout_sorted, c) = Count(lcomps, c)
          /\ \A j \in 1..(Len(layout_sorted) - 1) :
                LET a == layout_sorted[j]
                    b == layout_sorted[j + 1]
                IN  \/ a.bbox[2] < b.bbox[2]
                    \/ a.bbox[2] = b.bbox[2] /\ a.bbox[1] <= b.bbox[1]
          /\ Flatten(GroupedRows) = SubSeq(layout_sorted, 1, li)
          /\ \A r \in 1..Len(GroupedRows) :
                /\ GroupedRows[r] # <<>>
                /\ \A m \in 1..Len(GroupedRows[r]) :
                      SpecJoins(GroupedRows[r][m], GroupedRows[r][1])
                /\ r > 1 => ~SpecJoins(GroupedRows[r][1],
                                       GroupedRows[r - 1][1])
    /\ (lcomps = <<LayoutA, LayoutB, LayoutC>> /\ lpc = "convert" /\ ri = 0)
          => rows = << <<LayoutA, LayoutB>>, <<LayoutC>> >>
    /\ (lcomps = <<LayoutA, LayoutB, LayoutC>> /\ Built)
          => root.children =
                << LayoutNode(NoComponent, "row",
                      << LayoutNode(LayoutA, "leaf", <<>>),
                         LayoutNode(LayoutB, "leaf", <<>>) >>),
                   LayoutNode(LayoutC, "leaf", <<>>) >>

\* The grouping has ended with a row of two, and a component that is
\* within reach of that row's last member but not of its reference opened
\* the next row.
C6_Witness ==
    /\ lpc = "convert" /\ ri = 0
    /\ Len(rows) = 2
    /\ Len(rows[1]) = 2
    /\ SpecJoins(rows[2][1], rows[1][2])
    /\ ~SpecJoins(rows[2][1], rows[1][1])

MinY(s) == CHOOSE y \in { s[j].bbox[2] : j \in 1..Len(s) } :
              \A j \in 1..Len(s) : y <= s[j].bbox[2]

\* C7: for distinct ids, the root has one child per row, in the order the
\* rows were closed; a row of one is a leaf under the root; a row of two or
\* more is a row node whose children are the row's members as leaves in
\* ascending x; leaves have no children; the smallest y of the root's
\* children is non-decreasing.
C7_TreeShape ==
    (Built /\ lcomps # <<>> /\ DistinctIds(lcomps)) =>
        /\ Len(root.children) = Len(rows)
        /\ \A r \in 1..Len(rows) :
              LET ch == root.children[r]
              IN  /\ Len(rows[r]) = 1 =>
                        ch = LayoutNode(rows[r][1], "leaf", <<>>)
                  /\ Len(rows[r]) >= 2 =>
                        /\ ch.node_type = "row"
                        /\ Len(ch.children) = Len(rows[r])
                        /\ Len(ch.children) >= 2
                        /\ \A m \in 1..Len(ch.children) :
                              /\ ch.children[m].node_type = "leaf"
                              /\ ch.children[m].children = <<>>
                        /\ IdsOf(LeavesOf(ch)) = IdsOf(rows[r])
                        /\ \A m \in 1..(Len(ch.children) - 1) :
                              ch.children[m].component.bbox[1]
                                <= ch.children[m + 1].component.bbox[1]
        /\ \A r \in 1..(Len(root.children) - 1) :
              MinY(LeavesOf(root.children[r]))
                <= MinY(LeavesOf(root.children[r + 1]))

\* A tree has been returned whose first child is a row node that the sort
\* by x reordered (its left leaf lies lower than its right leaf) and whose
\* second child is a leaf.
C7_Witness ==
    /\ lpc = "returned"
    /\ DistinctIds(lcomps)
    /\ Len(root.children) = 2
    /\ root.children[1].node_type = "row"
    /\ root.children[1].children[1].component.bbox[2]
         > root.children[1].children[2].component.bbox[2]
    /\ root.children[2].node_type = "leaf"

\* A markup without a single character.
MarkupEmpty(m) ==
    \A j \in 1..Len(m) : \A i \in 1..Len(m[j].v) : m[j].v[i] = ""

RECURSIVE ShownTexts(_)
ShownTexts(m) ==
    IF m = <<>> THEN <<>>
    ELSE (IF Head(m).k = "txt" THEN <<Head(m).v>> ELSE <<>>)
            \o ShownTexts(Tail(m))

Entities == {AmpEntity, LtEntity, GtEntity, QuotEntity, AposEntity}

EntityOf(ch) ==
    IF ch = "&" THEN AmpEntity
    ELSE IF ch = "<" THEN LtEntity
    ELSE IF ch = ">" THEN GtEntity
    ELSE IF ch = "\"" THEN QuotEntity
    ELSE IF ch = "'" THEN AposEntity
    ELSE <<ch>>

\* Each character replaced by its entity, one character at a time.
RECURSIVE CharwiseEscape(_)
CharwiseEscape(t) ==
    IF t = <<>> THEN <<>> ELSE EntityOf(Head(t)) \o CharwiseEscape(Tail(t))

StartsWith(t, e) == Len(t) >= Len(e) /\ SubSeq(t, 1, Len(e)) = e

\* What a markup parser reads back: the five entities, left to right.
RECURSIVE Unescape(_)
Unescape(t) ==
    IF t = <<>> THEN <<>>
    ELSE IF StartsWith(t, AmpEntity)
    THEN <<"&">> \o Unescape(SubSeq(t, 6, Len(t)))
    ELSE IF StartsWith(t, LtEntity)
    THEN <<"<">> \o Unescape(SubSeq(t, 5, Len(t)))
    ELSE IF StartsWith(t, GtEntity)
    THEN <<">">> \o Unescape(SubSeq(t, 5, Len(t)))
    ELSE IF StartsWith(t, QuotEntity)
    THEN <<"\"">> \o Unescape(SubSeq(t, 7, Len(t)))
    ELSE IF StartsWith(t, AposEntity)
    THEN <<"'">> \o Unescape(SubSeq(t, 6, Len(t)))
    ELSE <<Head(t)>> \o Unescape(Tail(t))

\* The component types whose template inserts the text, per emitter.
InsertsText ==
    IF emode = "inline" THEN ecomp.type \in {"rect", "text"}
    ELSE ecomp.type \in {"button", "input", "label", "checkbox"}

\* C8: in both emitters a non-empty component text is inserted with each of
\* & < > " ' replaced by its entity; the inserted string holds no raw
\* < > " ', every & in it starts one of the five entities, and unescaping
\* gives back the text; 'Submit & <Close>' is emitted as
\* 'Submit &amp; &lt;Close&gt;'.
C8_Escaping ==
    (epc = "emitted" /\ ecomp.text # <<>>) =>
        /\ InsertsText => Len(ShownTexts(eout)) = 1
        /\ \A n \in 1..Len(ShownTexts(eout)) :
              LET shown == ShownTexts(eout)[n]
              IN  /\ shown = CharwiseEscape(ecomp.text)
                  /\ \A i \in 1..Len(shown) :
                        /\ shown[i] \notin {"<", ">", "\"", "'"}
                        /\ shown[i] = "&" =>
                              \E e \in Entities :
                                  StartsWith(SubSeq(shown, i, Len(shown)), e)
                  /\ Unescape(shown) = ecomp.text
                  /\ ecomp.text = ExampleText => shown = ExampleEscaped

\* The inline-style emitter has emitted a text that spells an entity.
C8_Witness ==
    /\ epc = "emitted"
    /\ emode = "inline"
    /\ ecomp.type = "rect"
    /\ ecomp.text = LtEntity
    /\ ShownTexts(eout) = << <<"&", "a", "m", "p", ";", "l", "t", ";">> >>

Fallback(type) ==
    IF type = "button" THEN Chars_Button
    ELSE IF type = "input" THEN Chars_EnterText
    ELSE IF type = "label" THEN Chars_Label
    ELSE Chars_Option

\* The element the inline-style emitter makes of a shape: a rect wider
\* than 2.5 times its height is an input, any other rect a button, a text a
\* label.
InlineElement(comp) ==
    IF comp.type = "text" THEN "label"
    ELSE IF 2 * comp.bbox[3] > 5 * comp.bbox[4] THEN "input"
    ELSE "button"

\* C10: a button, input, label or checkbox with empty text is shown with
\* the fallback of its type, 'Button', 'Enter text', 'Label', 'Option': by
\* the text-fill step, by the class-based emitter and by the inline-style
\* emitter (whose buttons and inputs are rects, whose labels are texts)
\* alike.
C10_FallbackText ==
    /\ (epc = "filled" /\ ocr = <<>>
          /\ ecomp.type \in {"button", "input", "label", "checkbox"}) =>
             ecomp.text = Fallback(ecomp.type)
    /\ (epc = "emitted" /\ emode = "class" /\ ecomp.text = <<>>
          /\ ecomp.type \in {"button", "input", "label", "checkbox"}) =>
             ShownTexts(eout) = <<Fallback(ecomp.type)>>
    /\ (epc = "emitted" /\ emode = "inline" /\ ecomp.text = <<>>
          /\ ecomp.type \in {"rect", "text"}) =>
             ShownTexts(eout) = <<Fallback(InlineElement(ecomp))>>

\* The literals with which the templates of the two emitters open an
\* element.
ElementOpeners ==
    { "<button class=\"btn\">",
      "<input type=\"text\" class=\"input-field\" placeholder=\"",
      "<label class=\"text-label\">",
      "<div class=\"checkbox-wrapper\">\n",
      "<div class=\"card\">\n",
      "<div class=\"unknown-box\" data-type=\"",
      "<button class=\"btn\"",
      "<p class=\"text-label\"" }

OpensElement(chunk) == chunk.k = "lit" /\ chunk.v[1] \in ElementOpeners

\* The types for which an emitter has a template of its own.
KnownType ==
    IF emode = "inline" THEN ecomp.type \in {"rect", "text"}
    ELSE ecomp.type \in {"button", "input", "label", "checkbox", "container"}

\* C11: in both style modes a leaf of an unknown type is emitted without
\* error as a placeholder element that carries the type as metadata, and
\* the emission of a leaf always produces an element.
C11_UnknownPlaceholder ==
    epc = "emitted" =>
        /\ ~IsRaised(eout)
        /\ \E j \in 1..Len(eout) : OpensElement(eout[j])
        /\ ~KnownType =>
              \E j \in 1..Len(eout) :
                  /\ OpensElement(eout[j])
                  /\ \E n \in (j + 1)..Len(eout) : eout[n] = Val(ecomp.type)

\* C14: after the text-fill step a container or a box has empty text,
\* whatever the recognizer returned for its region; the recognized text is
\* attached to buttons, labels, checkboxes and inputs only.
C14_TextEligibility ==
    epc = "filled" =>
        /\ ecomp.type \in {"container", "box"} => ecomp.text = <<>>
        /\ (ecomp.type \in {"button", "label", "checkbox", "input"}
              /\ ocr # <<>>) => ecomp.text = ocr

\* The "already used" warnings of the log, and how many of them name an id.
SkipWarnings == SelectSeq(llog, LAMBDA e : e.what = "already used")

WarningsFor(id) ==
    Cardinality({ j \in 1..Len(SkipWarnings) : SkipWarnings[j].id = id })

InputsWith(id) == Cardinality({ j \in 1..Len(lcomps) : lcomps[j].id = id })

IntegrityError ==
    \E j \in 1..Len(llog) :
        llog[j].level = "error" /\ llog[j].what = "count mismatch"

ObjectList == lcomps # <<>> /\ lcomps[1].kind = "obj"

\* C12: for a list of Component objects in which an id repeats, the build
\* does not raise; the returned tree holds every id in exactly one leaf,
\* each further placement of an id is skipped with one warning naming that
\* id, and the count check logs an integrity error.  No returned tree has
\* fewer leaves than the input has components without that error entry.
C12_RepeatedIds ==
    ObjectList =>
        /\ ~DistinctIds(lcomps) => lpc # "raised"
        /\ (Built /\ ~DistinctIds(lcomps)) =>
              /\ WellShaped
              /\ DistinctIds(TreeLeaves)
              /\ IdsOf(TreeLeaves) = IdsOf(lcomps)
              /\ Range(TreeLeaves) \subseteq Range(lcomps)
              /\ Len(SkipWarnings) = Len(lcomps) - Len(TreeLeaves)
              /\ \A id \in IdsOf(lcomps) :
                    WarningsFor(id) = InputsWith(id) - 1
              /\ IntegrityError
        /\ (Built /\ Len(TreeLeaves) < Len(lcomps)) => IntegrityError

\* Three components sharing one id have been built into a tree of one leaf,
\* with two skipped placements logged.
C12_Witness ==
    /\ lpc = "returned"
    /\ ObjectList
    /\ Len(lcomps) = 3
    /\ Cardinality(IdsOf(lcomps)) = 1
    /\ Len(TreeLeaves) = 1
    /\ Len(SkipWarnings) = 2
    /\ IntegrityError

\* Some geometry of the checked range satisfies both the checkbox and the
\* button condition.
CheckboxButtonOverlap ==
    \E gw \in 1..MaxDim, gh \in 1..MaxDim :
        /\ CheckboxRule(gw * gh, <<gw, gh>>)
        /\ ButtonRule(gh, gw * gh, <<gw, gh>>)

C17_Idempotent ==
    /\ dpc \in {"returned", "refiltered"} =>
          /\ dresult = filter_duplicates(components)
          /\ \A m, n \in 1..Len(dresult) :
                m < n => /\ ~SpecOverlapTest(dresult[n], dresult[m])
                         /\ ~SpecContainmentTest(dresult[n], dresult[m])
    /\ dpc = "refiltered" => refiltered = dresult

\* A call that discarded one of three components and returned the other
\* two, which overlap, has been applied again to its own result.
C17_Witness ==
    /\ dpc = "refiltered"
    /\ Len(components) = 3
    /\ Len(dresult) = 2
    /\ refiltered = dresult
    /\ SpecIntersection(dresult[1], dresult[2]) > 0

\* A shape all of whose bbox fields are integers, with positive width and
\* height.
WellFormedShape(shape) ==
    /\ shape.x.tag = "int" /\ shape.y.tag = "int"
    /\ shape.w.tag = "int" /\ shape.h.tag = "int"
    /\ shape.w.n > 0 /\ shape.h.n > 0

WellFormedPositions == { j \in 1..Len(shapes) : WellFormedShape(shapes[j]) }

\* C15: a request of one or more well-formed, typed shapes ends with status
\* 200 and a result that holds non-empty markup, a stylesheet and one
\* component for every shape.
C15_DesignResult ==
    (xpc = "done" /\ shapes # <<>>
        /\ WellFormedPositions = DOMAIN shapes) =>
        /\ response.status = 200
        /\ response.html # <<>>
        /\ ~IsRaised(response.html)
        /\ response.css # <<>>
        /\ IdsOf(response.components) = DOMAIN shapes

\* C13: a request with a malformed shape next to well-formed ones ends with
\* a result, not an error; the result holds a component for each
\* well-formed shape and none for a malformed one, and no component was
\* built for a malformed shape.
C13_MalformedRejected ==
    (xpc = "done" /\ WellFormedPositions # {}
        /\ WellFormedPositions # DOMAIN shapes) =>
        /\ response.status = 200
        /\ IdsOf(response.components) = WellFormedPositions
        /\ IdsOf(design_components) \subseteq WellFormedPositions

=============================================================================
